---- MODULE Spec2Model ----
(***************************************************************************)
(* Model of the release deployer: ReleaseManager.deploy / rollback /       *)
(* cleanup / updateWebRoot (release-manager, webRoot variant) together     *)
(* with createSymlink and copyDirectoryRecursive (utils.ts).                *)
(*                                                                         *)
(* One project.  The file system is reduced to what the deployer touches:  *)
(* the release directories under releases/<project>, the link              *)
(* current/<project>, and the serving directory (webRoot).  Every "await"  *)
(* of the code is a step boundary: webhook handlers run on one event loop  *)
(* and interleave exactly at their awaits, while ln / unzip / curl and the *)
(* un-awaited directory copy run beside them.                              *)
(***************************************************************************)
EXTENDS Integers, Sequences, FiniteSets, TLC

\* ------------------------------------------------------------- bounds
MaxClock == 2       \* the clock runs from 0 to MaxClock
MaxAttempts == 2    \* deployment attempts started in one behaviour
MaxKeep == 2        \* largest configured keepReleases
MaxCopies == 2      \* directory copies running at the same time
MaxBody == 2        \* longest request body, in bytes
MaxBuffer == 6      \* longest downloaded file, in bytes
MaxCopyErrors == 1  \* entries whose copy throws in one behaviour

\* ------------------------------------------------------------- values
Procs == {"h1", "h2"}           \* webhook handlers that may be in flight

\* Tag names as UTF-16 code units: "v9" and "v10".
TagV9 == <<118, 57>>
TagV10 == <<118, 49, 48>>
Tags == {TagV9, TagV10}

\* A release directory is identified by the tag and timestamp of its name.
Names == [tag : Tags, ts : 0..MaxClock]
\* "no path": an absent link, an undefined previousReleasePath.
NoRelease == [tag |-> <<>>, ts |-> 0]

\* Files of an extracted archive.
Files == {"index", "app"}

\* new Date().toISOString().replace(/[:.]/g, "-"): a fixed-width string of
\* digits and separators; one digit stands for it here.
Timestamp(t) == <<48 + t>>

\* `${releaseInfo.tagName}-${timestamp}`
DirName(n) == n.tag \o <<45>> \o Timestamp(n.ts)

\* Array.prototype.sort() without a comparator: code-unit order of strings.
LexLess(a, b) ==
  \E i \in 1..(Len(a) + 1) :
    /\ \A j \in 1..(i - 1) : j <= Len(b) /\ a[j] = b[j]
    /\ \/ i = Len(a) + 1 /\ Len(b) >= i
       \/ i <= Len(a) /\ i <= Len(b) /\ a[i] < b[i]

RECURSIVE Sort(_)
Sort(S) ==
  IF S = {} THEN <<>>
  ELSE LET m == CHOOSE x \in S :
                  \A y \in S \ {x} : LexLess(DirName(x), DirName(y))
       IN <<m>> \o Sort(S \ {m})

\* releases.sort().slice(0, releases.length - keepReleases)
ToRemove(S, keep) ==
  IF Cardinality(S) > keep
  THEN SubSeq(Sort(S), 1, Cardinality(S) - keep)
  ELSE <<>>

\* What a release directory holds, by how far its extraction got.
FilesOf(status) ==
  CASE status = "full" -> Files
    [] status = "partial" -> {"index"}
    [] OTHER -> {}

\* ------------------------------------------------------------- downloaded bytes
\* The bytes the scans of downloadAndExtract look for: P K 0x03 0x04 and "-".
ScanBytes == {80, 75, 3, 4, 45}
Buffers == UNION {[1..n -> ScanBytes] : n \in 0..MaxBuffer}

\* Two downloads: an archive, and a file without a ZIP header.
Samples == {<<80, 75, 3, 4, 75>>, <<75, 45>>}

\* The first loop with startIndex initialised to 0 in place of -1.
StartIndexFromZero(bytes) ==
  LET hits == {i \in 0..(Len(bytes) - 5) :
                 /\ bytes[i + 1] = 80
                 /\ bytes[i + 2] = 75
                 /\ bytes[i + 3] = 3
                 /\ bytes[i + 4] = 4}
  IN IF hits = {} THEN 0
     ELSE CHOOSE i \in hits : \A j \in hits : i <= j

\* The first loop: `for (let i = 0; i < bytes.length - 4; i++)`, the first i
\* with bytes[i..i+3] = 50 4B 03 04, or -1.  Indices count from 0 as in the
\* code; bytes[i] is element i + 1 of the sequence.
StartIndex(bytes) ==
  LET hits == {i \in 0..(Len(bytes) - 5) :
                 /\ bytes[i + 1] = 80
                 /\ bytes[i + 2] = 75
                 /\ bytes[i + 3] = 3
                 /\ bytes[i + 4] = 4}
  IN IF hits = {} THEN -1
     ELSE CHOOSE i \in hits : \A j \in hits : i <= j

\* The second loop: `for (let i = bytes.length - 1; i >= 0; i--)`, for the
\* last i with bytes[i] = bytes[i - 1] = 0x2d it gives i - 1, and
\* bytes.length when there is none (bytes[-1] is undefined).
EndIndex(bytes) ==
  LET hits == {i \in 1..(Len(bytes) - 1) :
                 bytes[i + 1] = 45 /\ bytes[i] = 45}
  IN IF hits = {} THEN Len(bytes)
     ELSE (CHOOSE i \in hits : \A j \in hits : i >= j) - 1

\* bytes.slice(start, end) for 0 <= start.
Slice(bytes, start, end) ==
  IF end <= start THEN <<>> ELSE SubSeq(bytes, start + 1, end)

\* ------------------------------------------------------------- commands
\* What a command run by executeCommands may end with.
ExitCodes == {0, 1, 127}
Stderrs == {"", "denied"}

\* new Error(`Command failed with exit code ${code}: ${command}\nstderr:
\* ${errMsg}`): what the message is made of.
CommandError(command, code, errMsg) ==
  [command |-> command, code |-> code, stderr |-> errMsg]

\* No command has failed.
NoCommandError == [command |-> "", code |-> 0, stderr |-> ""]

\* ------------------------------------------------------------- webhook requests
\* Bytes a request body is made of: "{" and 0xFF, a byte no UTF-8 text holds.
BodyBytes == {123, 255}
Bodies == UNION {[1..n -> BodyBytes] : n \in 0..MaxBody}

\* req.text(): the body decoded as UTF-8.  A byte that is not part of a
\* well-formed sequence becomes U+FFFD.
Utf8Decode(bytes) ==
  [i \in 1..Len(bytes) |-> IF bytes[i] < 128 THEN bytes[i] ELSE 65533]

\* hmac.update(body): the string is hashed as its UTF-8 bytes.
RECURSIVE Utf8Encode(_)
Utf8Encode(text) ==
  IF text = <<>> THEN <<>>
  ELSE (IF Head(text) < 128 THEN <<Head(text)>> ELSE <<239, 191, 189>>)
       \o Utf8Encode(Tail(text))

\* config.webhookSecret, and a key that is not the secret.
WebhookSecret == "your-webhook-secret"
Keys == {WebhookSecret, "guess"}

\* new Bun.CryptoHasher("sha256", key).update(bytes).digest("hex"): the
\* digest stands for the key and message it was made from (no collisions).
HmacSha256Hex(key, bytes) == [key |-> key, msg |-> bytes]
NoDigest == [key |-> "", msg |-> <<>>]

\* Values of the x-hub-signature-256 header: no header (null), an empty
\* header, or a prefix followed by a digest.
NoHeader == [prefix |-> "null", digest |-> NoDigest]
EmptyHeader == [prefix |-> "", digest |-> NoDigest]
Signed(key, bytes) == [prefix |-> "sha256=", digest |-> HmacSha256Hex(key, bytes)]
Headers ==
  {NoHeader, EmptyHeader}
    \cup [prefix : {"sha256=", "sha1="},
          digest : {HmacSha256Hex(k, m) :
                      k \in Keys,
                      m \in Bodies \cup {Utf8Encode(Utf8Decode(b)) : b \in Bodies}}]

\* function verifySignature(signature, body): body is the decoded text.
verifySignature(signature, body) ==
  IF signature = NoHeader \/ signature = EmptyHeader THEN FALSE
  ELSE signature = Signed(WebhookSecret, Utf8Encode(body))

\* JSON.parse(body): it throws (Malformed), or gives the release event with
\* the fields the handler reads.
Malformed == [parses |-> FALSE, action |-> "", full_name |-> "",
              target_commitish |-> "", tag_name |-> <<>>]
Payloads ==
  {Malformed}
    \cup [parses : {TRUE}, action : {"published", "created"},
          full_name : {"owner/repo", "owner/another-repo"},
          target_commitish : {"main", "dev"}, tag_name : {TagV9}]

\* Values of the x-github-event header; "null" when there is none.
Events == {"release", "push", "null"}

\* The one configured project.
ProjectName == "Project One"
GithubRepo == "owner/repo"
NoBranch == ""

NoRequest == [body |-> <<>>, signature |-> NoHeader, event |-> "null",
              json |-> Malformed]
NoResponse == [status |-> 0, text |-> "", project |-> "",
               extractPath |-> NoRelease]

\* new Response(text, { status }) of the early returns.
Rejection(status, text) ==
  [status |-> status, text |-> text, project |-> "", extractPath |-> NoRelease]

\* The catch block of handleRelease: Response.json({ error, details }, 500).
ErrorResponse == Rejection(500, "Failed to process release")

\* No early return: the handler goes on to releaseManager.deploy.
Proceed == NoResponse

VARIABLES
  now,            \* the clock, in timestamps
  started,        \* attempts started so far
  keepReleases,   \* config.keepReleases
  hasPreRollback, \* config.preRollback is set
  branch,         \* config.branch of the project, NoBranch when not set
  logged,         \* "Error copying" lines written by copyDirectoryRecursive
  releases,       \* releases/<project>/<name>: absent, empty, zip, partial, full
  current,        \* target of current/<project>, NoRelease when there is no link
  everLinked,     \* the link has existed at some time
  webRootDir,     \* the serving directory exists
  webRoot,        \* file of the serving directory -> release it was copied from
  copies,         \* copyDirectoryRecursive calls still running
  att,            \* per handler: the deploy() call it is in
  seen            \* what a reader of current/<project> last observed

vars == <<now, started, keepReleases, hasPreRollback, branch, logged, releases, current,
          everLinked, webRootDir, webRoot, copies, att, seen>>

\* handleRelease without its comparison of the target commitish with
\* project.branch.
RouteAnyBranch(r) ==
  IF ~verifySignature(r.signature, Utf8Decode(r.body))
  THEN Rejection(401, "Invalid signature")
  ELSE IF r.event # "release"
  THEN Rejection(400, "This endpoint only handles release events")
  ELSE IF ~r.json.parses
  THEN ErrorResponse
  ELSE IF r.json.action # "published"
  THEN Rejection(200, "Ignoring action")
  ELSE IF r.json.full_name # GithubRepo
  THEN Rejection(404, "No matching project configuration found")
  ELSE Proceed

\* handleRelease from the signature check to the branch check: the early
\* return taken for request r, or Proceed.
Route(r) ==
  IF ~verifySignature(r.signature, Utf8Decode(r.body))
  THEN Rejection(401, "Invalid signature")
  ELSE IF r.event # "release"
  THEN Rejection(400, "This endpoint only handles release events")
  ELSE IF ~r.json.parses
  THEN ErrorResponse
  ELSE IF r.json.action # "published"
  THEN Rejection(200, "Ignoring action")
  ELSE IF r.json.full_name # GithubRepo
  THEN Rejection(404, "No matching project configuration found")
  ELSE IF branch # NoBranch /\ r.json.target_commitish # branch
  THEN Rejection(400, "Release branch doesn't match configured branch")
  ELSE Proceed

\* A handler and the deploy() call it is in.  req: the request it has read;
\* resp: the response it has returned; pc: the await it is at; rel: releaseDir;
\* buf: the bytes of release.zip it has downloaded and not yet unpacked;
\* prev: previousReleasePath; err: the error caught by deploy(); out: "ok" or
\* the error deploy() threw; toRemove: what cleanup() has still to remove.
\* Kept for the properties: startLink / startCur, the link and what it
\* resolved to when deploy() was called; rolled, rollback() was called;
\* removed, cleanup() of this call has removed a release directory.
\* The executeCommands call of rollback(): running, a command has been
\* started and has not exited; cmdErr, what the error it threw carries.
\* Kept for the properties: ran, the commands started, in order; exits, the
\* exit code of those that have exited, with the stderr of one that failed;
\* steps, the steps of deploy() that have completed since it was called or,
\* once its catch block is entered, the steps of rollback() that have.
Idle == [pc |-> "idle", rel |-> NoRelease, prev |-> NoRelease, err |-> "",
         out |-> "", toRemove |-> <<>>, startLink |-> NoRelease,
         startCur |-> NoRelease, rolled |-> FALSE, removed |-> FALSE,
         running |-> FALSE, cmdErr |-> NoCommandError, ran |-> <<>>,
         exits |-> <<>>, req |-> NoRequest, resp |-> NoResponse,
         buf |-> <<>>, steps |-> <<>>]

\* realpath(link): the directory the link resolves to; it throws (NoRelease
\* here) when there is no link or its target does not exist.
Realpath(link) ==
  IF link # NoRelease /\ releases[link] # "absent" THEN link ELSE NoRelease

Existing == {n \in Names : releases[n] # "absent"}

\* The release of an earlier deployment.
Earlier == [tag |-> TagV10, ts |-> 0]

\* runServer: the configuration is loaded and the server starts on a new
\* base directory, or on one that an earlier run has deployed Earlier to: its
\* directory extracted, the link at it and the serving directory a copy of
\* it.
RunServer ==
  /\ now = 0
  /\ logged = 0
  /\ started = 0
  /\ keepReleases \in 1..MaxKeep
  /\ hasPreRollback \in BOOLEAN
  /\ copies = {}
  /\ att = [p \in Procs |-> Idle]
  /\ seen = "unread"
  /\ \/ /\ releases = [n \in Names |-> "absent"]
        /\ current = NoRelease
        /\ everLinked = FALSE
        /\ webRootDir = FALSE
        /\ webRoot = [f \in Files |-> NoRelease]
     \/ /\ releases = [n \in Names |-> IF n = Earlier THEN "full" ELSE "absent"]
        /\ current = Earlier
        /\ everLinked = TRUE
        /\ webRootDir = TRUE
        /\ webRoot = [f \in Files |-> Earlier]

\* The project is configured with branch "main".
Init ==
  /\ RunServer
  /\ branch = "main"

\* ------------------------------------------------------------- deploy()

\* The errors told apart: the one thrown by a step of deploy()'s try block,
\* and one thrown inside rollback().
StepError == "step failed"
RollbackError == "rollback failed"

\* The catch block of deploy() without its test of previousReleasePath:
\* rollback is started after every failure, towards the release that was
\* active when deploy() was called.
AfterThrowAlwaysRollsBack(a, e) ==
  [a EXCEPT !.err = e, !.rolled = TRUE, !.steps = <<>>,
            !.prev = IF a.prev # NoRelease THEN a.prev ELSE a.startCur,
            !.pc = IF hasPreRollback THEN "rb_hook" ELSE "rb_rm"]

\* The catch block of deploy(): `if (previousReleasePath) await
\* this.rollback(previousReleasePath); throw error`.  rollback() runs the
\* pre-rollback commands first when config.preRollback is set.
AfterThrow(a, e) ==
  IF a.prev # NoRelease
  THEN [a EXCEPT !.err = e, !.rolled = TRUE, !.steps = <<>>,
                 !.pc = IF hasPreRollback THEN "rb_hook" ELSE "rb_rm"]
  ELSE [a EXCEPT !.err = e, !.out = e, !.steps = <<>>, !.pc = "failed"]

\* An error thrown inside rollback() leaves deploy()'s catch block in place
\* of the error that was being handled.
\* A throw inside rollback() that calls rollback() again.
RollbackThrowRetries(a, e) ==
  [a EXCEPT !.out = e, !.ran = <<>>, !.exits = <<>>, !.running = FALSE,
            !.pc = IF hasPreRollback THEN "rb_hook" ELSE "rb_rm"]

RollbackThrow(a, e) == [a EXCEPT !.out = e, !.pc = "failed"]

\* deploy(releaseInfo) is called: the directory name is fixed from the tag
\* and the clock before the first await.  The clock has moved on since the
\* last call unless that call is still in flight: only overlapping attempts
\* may read the same millisecond.  Which handler serves a request makes no
\* difference: h2 is taken when h1 is busy.
Deploy(p, tag) ==
  /\ started < MaxAttempts
  /\ \E t \in {now, now + 1} :
       /\ t <= MaxClock
       /\ t = now => \E q \in Procs \ {p} : att[q].pc # "idle"
       /\ now' = t
       /\ att' = [att EXCEPT ![p] =
                    [Idle EXCEPT !.pc = "mkdir",
                                 !.rel = [tag |-> tag, ts |-> t],
                                 !.startLink = current,
                                 !.startCur = Realpath(current)]]
  /\ started' = started + 1
  /\ UNCHANGED <<keepReleases, hasPreRollback, branch, logged, releases, current,
                 everLinked, webRootDir, webRoot, copies, seen>>

\* A release event that passes every check of handleRelease arrives and
\* deploy() is called for its tag.
Start(p, tag) ==
  /\ att[p].pc = "idle"
  /\ p = "h2" => att["h1"].pc # "idle"
  /\ Deploy(p, tag)

\* mkdir(releaseDir, { recursive: true }) and the three mkdirs before it.
Mkdir(p) ==
  /\ att[p].pc = "mkdir"
  /\ \/ /\ releases' = [releases EXCEPT ![att[p].rel] =
                          IF @ = "absent" THEN "empty" ELSE @]
        /\ att' = [att EXCEPT ![p].pc = "resolve"]
     \/ /\ att' = [att EXCEPT ![p] = AfterThrow(@, StepError)]
        /\ UNCHANGED releases
  /\ UNCHANGED <<now, started, keepReleases, hasPreRollback, branch, logged, current,
                 everLinked, webRootDir, webRoot, copies, seen>>

\* getAssetDownloadUrl: the API answers with the asset, or it throws.
GetAssetDownloadUrl(p) ==
  /\ att[p].pc = "resolve"
  /\ \/ att' = [att EXCEPT ![p].pc = "curl",
                           ![p].steps = Append(@, "resolve")]
     \/ att' = [att EXCEPT ![p] = AfterThrow(@, StepError)]
  /\ UNCHANGED <<now, started, keepReleases, hasPreRollback, branch, logged, releases,
                 current, everLinked, webRootDir, webRoot, copies, seen>>

\* downloadAndExtract, step 1: curl writes the bytes b it is sent to
\* release.zip in the directory, or it exits non-zero.
Download(p, b) ==
  /\ att[p].pc = "curl"
  /\ \/ /\ releases[att[p].rel] # "absent"
        /\ releases' = [releases EXCEPT ![att[p].rel] =
                          IF @ = "empty" THEN "zip" ELSE @]
        /\ att' = [att EXCEPT ![p].pc = "extract", ![p].buf = b,
                              ![p].steps = Append(@, "download")]
     \/ /\ att' = [att EXCEPT ![p] = AfterThrow(@, StepError)]
        /\ UNCHANGED releases
  /\ UNCHANGED <<now, started, keepReleases, hasPreRollback, branch, logged, current,
                 everLinked, webRootDir, webRoot, copies, seen>>

Curl(p) == \E b \in Samples : Download(p, b)

\* The slice written back to release.zip and handed to unzip.
Cleaned(bytes) == Slice(bytes, StartIndex(bytes), EndIndex(bytes))

\* unzip is reached: the header was found and the slice is not empty.
Unzips(bytes) == StartIndex(bytes) # -1 /\ Cleaned(bytes) # <<>>

\* downloadAndExtract, steps 2 and 3: strip the framing, unzip, delete the
\* zip.  A missing header or an empty slice throws before unzip, with
\* release.zip still in the directory; unzip unpacks the archive, or it fails
\* and leaves what it had unpacked; anything else that throws (reading or
\* writing release.zip) leaves the directory as it is.
Extract(p) ==
  /\ att[p].pc = "extract"
  /\ \/ /\ Unzips(att[p].buf)
        /\ releases[att[p].rel] # "absent"
        /\ releases' = [releases EXCEPT ![att[p].rel] = "full"]
        /\ att' = [att EXCEPT ![p].pc = "capture", ![p].buf = <<>>,
                              ![p].steps = Append(@, "extract")]
     \/ /\ Unzips(att[p].buf)
        /\ releases[att[p].rel] # "absent"
        /\ releases' = [releases EXCEPT ![att[p].rel] = "partial"]
        /\ att' = [att EXCEPT ![p] = AfterThrow(@, StepError)]
     \/ /\ UNCHANGED releases
        /\ att' = [att EXCEPT ![p] = AfterThrow(@, StepError)]
  /\ UNCHANGED <<now, started, keepReleases, hasPreRollback, branch, logged, current,
                 everLinked, webRootDir, webRoot, copies, seen>>

\* previousReleasePath = await realpath(currentLink), undefined on a throw.
Capture(p) ==
  /\ att[p].pc = "capture"
  /\ att' = [att EXCEPT ![p].prev = Realpath(current), ![p].pc = "rm",
                        ![p].steps = Append(@, "capture")]
  /\ UNCHANGED <<now, started, keepReleases, hasPreRollback, branch, logged, releases,
                 current, everLinked, webRootDir, webRoot, copies, seen>>

\* ------------------------------------------------------------- createSymlink

InRollback(a) == a.pc \in {"rb_hook", "rb_rm", "rb_ln", "rb_web"}

\* The release a createSymlink / updateWebRoot call of the attempt is for:
\* releaseDir in deploy(), previousReleasePath in rollback().
Target(a) == IF InRollback(a) THEN a.prev ELSE a.rel

\* createSymlink, first await: rm(link, { recursive: true, force: true }).
SymlinkRm(p) ==
  /\ att[p].pc \in {"rm", "rb_rm"}
  /\ \/ /\ current' = NoRelease
        /\ att' = [att EXCEPT ![p].pc = IF @ = "rm" THEN "ln" ELSE "rb_ln"]
     \/ /\ UNCHANGED current
        /\ att' = [att EXCEPT ![p] =
                     IF @.pc = "rm" THEN AfterThrow(@, StepError)
                     ELSE RollbackThrow(@, RollbackError)]
  /\ UNCHANGED <<now, started, keepReleases, hasPreRollback, branch, logged, releases,
                 everLinked, webRootDir, webRoot, copies, seen>>

\* createSymlink, second await: spawn(["ln", "-sfn", target, link]).exited.
\* The exit code is not looked at, so nothing is thrown here; ln is taken to
\* do its work.
SymlinkLn(p) ==
  /\ att[p].pc \in {"ln", "rb_ln"}
  /\ current' = Target(att[p])
  /\ everLinked' = TRUE
  /\ att' = [att EXCEPT ![p].pc = IF @ = "ln" THEN "web" ELSE "rb_web",
                        ![p].steps = Append(@, "swap")]
  /\ UNCHANGED <<now, started, keepReleases, hasPreRollback, branch, logged, releases,
                 webRootDir, webRoot, copies, seen>>

\* ------------------------------------------------------------- updateWebRoot

\* A copyDirectoryRecursive(releasePath, webRoot, { clearDestination: true })
\* call that has just been made.
NewCopy(src) == [src |-> src, pc |-> "clear", ents |-> {}, bad |-> {}]

\* updateWebRoot(releasePath): mkdir, readdir and rm of every item, then the
\* copy is started and NOT awaited; updateWebRoot returns at once.  A throw of
\* mkdir / readdir / rm is rethrown as "Failed to update web root".
UpdateWebRoot(p) ==
  /\ att[p].pc \in {"web", "rb_web"}
  /\ \/ /\ Cardinality(copies) < MaxCopies
        /\ webRootDir' = TRUE
        /\ webRoot' = [f \in Files |-> NoRelease]
        /\ copies' = copies \cup {NewCopy(Target(att[p]))}
        /\ att' = [att EXCEPT ![p] =
                     IF @.pc = "web"
                     THEN [@ EXCEPT !.pc = "cleanup",
                                    !.steps = Append(@, "sync")]
                     ELSE [@ EXCEPT !.pc = "failed", !.out = att[p].err,
                                    !.steps = Append(@, "sync")]]
     \/ /\ UNCHANGED <<webRootDir, webRoot, copies>>
        /\ att' = [att EXCEPT ![p] =
                     IF @.pc = "web" THEN AfterThrow(@, StepError)
                     ELSE RollbackThrow(@, RollbackError)]
  /\ UNCHANGED <<now, started, keepReleases, hasPreRollback, branch, logged, releases,
                 current, everLinked, seen>>


\* ------------------------------------------------------------- cleanup()

\* cleanup(), first await: readdir(projectDir), then the sorted slice of
\* what is to be removed.
CleanupRead(p) ==
  /\ att[p].pc = "cleanup"
  /\ LET rm == ToRemove(Existing, keepReleases)
     IN att' = [att EXCEPT ![p] =
                  IF rm = <<>>
                  THEN [@ EXCEPT !.pc = "done", !.out = "ok",
                                 !.steps = Append(@, "retention")]
                  ELSE [@ EXCEPT !.pc = "rmOld", !.toRemove = rm,
                                 !.steps = Append(@, "retention")]]
  /\ UNCHANGED <<now, started, keepReleases, hasPreRollback, branch, logged, releases,
                 current, everLinked, webRootDir, webRoot, copies, seen>>

\* cleanup(), one turn of the loop: rm(releasePath, { recursive, force }).
\* A throw of rm leaves cleanup() and deploy()'s try block.
CleanupRm(p) ==
  /\ att[p].pc = "rmOld"
  /\ \/ /\ releases' = [releases EXCEPT ![Head(att[p].toRemove)] = "absent"]
        /\ att' = [att EXCEPT ![p] =
                     IF Len(@.toRemove) = 1
                     THEN [@ EXCEPT !.pc = "done", !.out = "ok",
                                    !.toRemove = <<>>, !.removed = TRUE]
                     ELSE [@ EXCEPT !.toRemove = Tail(att[p].toRemove),
                                    !.removed = TRUE]]
     \/ /\ UNCHANGED releases
        /\ att' = [att EXCEPT ![p] =
                     AfterThrow([@ EXCEPT !.toRemove = <<>>], StepError)]
  /\ UNCHANGED <<now, started, keepReleases, hasPreRollback, branch, logged, current,
                 everLinked, webRootDir, webRoot, copies, seen>>

\* ------------------------------------------------------------- rollback()

\* config.preRollback with {{webRoot}} substituted (rollback(), the map).
PreRollbackCommands ==
  IF hasPreRollback THEN <<"php artisan down", "php artisan cache:clear">>
  ELSE <<>>

\* executeCommands without its test of the exit code: the loop goes on to
\* the next command whatever the command exited with.
PreRollbackKeepsGoing(p) ==
  /\ att[p].pc = "rb_hook"
  /\ LET a == att[p]
         k == Len(a.ran)
     IN IF ~a.running
        THEN att' = [att EXCEPT ![p] =
                       [a EXCEPT !.ran = Append(@, PreRollbackCommands[k + 1]),
                                 !.running = TRUE]]
        ELSE \E code \in ExitCodes, errMsg \in Stderrs :
               att' = [att EXCEPT ![p] =
                         [a EXCEPT !.running = FALSE,
                                   !.exits = Append(@,
                                      [code |-> code,
                                       stderr |-> IF code = 0 THEN ""
                                                  ELSE errMsg]),
                                   !.pc = IF k = Len(PreRollbackCommands)
                                          THEN "rb_rm" ELSE "rb_hook"]]
  /\ UNCHANGED <<now, started, keepReleases, hasPreRollback, branch, logged, releases,
                 current, everLinked, webRootDir, webRoot, copies, seen>>

\* rollback(): executeCommands(commands, webRoot).  One turn of its loop is
\* two steps: the command is started (`await $`${command}`.cwd(cwd)
\* .nothrow().quiet()`), and it exits.  A non-zero exit code makes
\* executeCommands, and with it rollback(), throw; after the last command
\* rollback() goes on to createSymlink.
PreRollback(p) ==
  /\ att[p].pc = "rb_hook"
  /\ LET a == att[p]
         k == Len(a.ran)
     IN IF ~a.running
        THEN att' = [att EXCEPT ![p] =
                       [a EXCEPT !.ran = Append(@, PreRollbackCommands[k + 1]),
                                 !.running = TRUE]]
        ELSE \E code \in ExitCodes, errMsg \in Stderrs :
               LET b == [a EXCEPT !.running = FALSE,
                                  !.exits = Append(@,
                                     [code |-> code,
                                      stderr |-> IF code = 0 THEN ""
                                                 ELSE errMsg])]
               IN att' = [att EXCEPT ![p] =
                     IF code # 0
                     THEN RollbackThrow(
                            [b EXCEPT !.cmdErr =
                               CommandError(PreRollbackCommands[k], code, errMsg)],
                            RollbackError)
                     ELSE IF k = Len(PreRollbackCommands)
                          THEN [b EXCEPT !.pc = "rb_rm",
                                         !.steps = Append(@, "hooks")]
                          ELSE b]
  /\ UNCHANGED <<now, started, keepReleases, hasPreRollback, branch, logged, releases,
                 current, everLinked, webRootDir, webRoot, copies, seen>>

\* What `await releaseManager.deploy(releaseInfo)` evaluates to: deploy()
\* has no return statement.
DeployResult(a) == NoRelease

\* deploy() has returned: Response.json({ message, project, extractPath,
\* releaseInfo }), where a key whose value is undefined is left out.  Or it
\* has thrown: the catch block answers 500.
Respond(p) ==
  /\ att[p].pc \in {"done", "failed"}
  /\ att' = [att EXCEPT ![p] =
               [Idle EXCEPT
                  !.pc = "responded",
                  !.rel = att[p].rel,
                  !.resp = IF att[p].pc = "done"
                           THEN [status |-> 200,
                                 text |-> "Release processed successfully",
                                 project |-> ProjectName,
                                 extractPath |-> DeployResult(att[p])]
                           ELSE ErrorResponse]]
  /\ UNCHANGED <<now, started, keepReleases, hasPreRollback, branch, logged, releases,
                 current, everLinked, webRootDir, webRoot, copies, seen>>

\* The response has been sent; the handler is free for the next request.
Finish(p) ==
  /\ att[p].pc = "responded"
  /\ att' = [att EXCEPT ![p] = Idle]
  /\ UNCHANGED <<now, started, keepReleases, hasPreRollback, branch, logged, releases,
                 current, everLinked, webRootDir, webRoot, copies, seen>>

\* ------------------------------------------------------------- handleRelease

\* A POST to /webhook/github/release: handleRelease reads the body
\* (`await req.text()`) and the two headers.
Receive(p, r) ==
  /\ att[p].pc = "idle"
  /\ p = "h2" => att["h1"].pc # "idle"
  /\ started < MaxAttempts
  /\ att' = [att EXCEPT ![p] = [Idle EXCEPT !.pc = "received", !.req = r]]
  /\ UNCHANGED <<now, started, keepReleases, hasPreRollback, branch, logged, releases,
                 current, everLinked, webRootDir, webRoot, copies, seen>>

\* handleRelease from the signature check on, up to its next await: an early
\* return, the 500 of the catch block, or the call of deploy().
HandleRelease(p) ==
  /\ att[p].pc = "received"
  /\ IF Route(att[p].req) = Proceed
     THEN Deploy(p, att[p].req.json.tag_name)
     ELSE /\ att' = [att EXCEPT ![p].pc = "responded",
                                ![p].resp = Route(att[p].req)]
          /\ UNCHANGED <<now, started, keepReleases, hasPreRollback, branch, logged,
                         releases, current, everLinked, webRootDir, webRoot,
                         copies, seen>>

\* ------------------------------------------------------------- copyDirectoryRecursive

\* A copy with nothing left to do has ended.
Live(c) == c.pc # "copy" \/ c.ents # {}

Replace(c, d) == (copies \ {c}) \cup (IF Live(d) THEN {d} ELSE {})

\* options.clearDestination: rm(destinationPath, { recursive, force }).
CopyClear(c) ==
  /\ c.pc = "clear"
  /\ webRootDir' = FALSE
  /\ webRoot' = [f \in Files |-> NoRelease]
  /\ copies' = Replace(c, [c EXCEPT !.pc = "read"])
  /\ UNCHANGED <<now, started, keepReleases, hasPreRollback, branch, logged, releases,
                 current, everLinked, att, seen>>

\* readdir(sourcePath), then mkdir(destinationPath).  readdir of a directory
\* that is gone throws into the outer catch, which ends the copy.
CopyRead(c) ==
  /\ c.pc = "read"
  /\ IF releases[c.src] = "absent"
     THEN /\ copies' = copies \ {c}
          /\ UNCHANGED webRootDir
     ELSE /\ webRootDir' = TRUE
          /\ copies' = Replace(c, [c EXCEPT !.pc = "copy",
                                           !.ents = FilesOf(releases[c.src])])
  /\ UNCHANGED <<now, started, keepReleases, hasPreRollback, branch, logged, releases,
                 current, everLinked, webRoot, att, seen>>

\* One entry of the source: `fileExists = await stat(dest).catch(() =>
\* false)`, then copyFile unless the file exists (options.replace is not
\* set).  copyFile throws when the source file or the destination directory
\* is gone; the throw is logged and the entry is left out.
CopyEntry(c, f) ==
  /\ c.pc = "copy"
  /\ f \in c.ents
  /\ webRoot' = IF /\ webRootDir
                   /\ webRoot[f] = NoRelease
                   /\ f \in FilesOf(releases[c.src])
                THEN [webRoot EXCEPT ![f] = c.src]
                ELSE webRoot
  /\ copies' = Replace(c, [c EXCEPT !.ents = @ \ {f}])
  /\ UNCHANGED <<now, started, keepReleases, hasPreRollback, branch, logged, releases,
                 current, everLinked, webRootDir, att, seen>>

\* ------------------------------------------------------------- a reader

\* Another process (the web server, a shell) resolves current/<project>.
Read ==
  /\ seen' = IF current # NoRelease THEN "target"
             ELSE IF everLinked THEN "vanished" ELSE "absent"
  /\ seen' # seen
  /\ UNCHANGED <<now, started, keepReleases, hasPreRollback, branch, logged, releases,
                 current, everLinked, webRootDir, webRoot, copies, att>>

\* ------------------------------------------------------------- specifications

Step(p) ==
  \/ Mkdir(p)
  \/ GetAssetDownloadUrl(p)
  \/ Curl(p)
  \/ Extract(p)
  \/ Capture(p)
  \/ SymlinkRm(p)
  \/ SymlinkLn(p)
  \/ UpdateWebRoot(p)
  \/ CleanupRead(p)
  \/ CleanupRm(p)
  \/ PreRollback(p)
  \/ Respond(p)
  \/ Finish(p)

\* A copy operation whose rejection ends the whole copy: the entries not
\* yet copied are dropped.
CopyEntryFailsAborts(c, f) ==
  /\ c.pc = "copy"
  /\ f \in c.ents
  /\ logged < MaxCopyErrors
  /\ logged' = logged + 1
  /\ copies' = copies \ {c}
  /\ UNCHANGED <<now, started, keepReleases, hasPreRollback, branch, releases,
                 current, everLinked, webRootDir, webRoot, att, seen>>

\* One copy operation throws (stat, copyFile or the recursive call): the
\* catch inside the operation writes "Error copying <name>" and the
\* operation ends; the other operations of the copy are not affected.
CopyEntryFails(c, f) ==
  /\ c.pc = "copy"
  /\ f \in c.ents
  /\ logged < MaxCopyErrors
  /\ logged' = logged + 1
  /\ copies' = Replace(c, [c EXCEPT !.ents = @ \ {f}, !.bad = @ \cup {f}])
  /\ UNCHANGED <<now, started, keepReleases, hasPreRollback, branch, releases,
                 current, everLinked, webRootDir, webRoot, att, seen>>

CopyFails == \E c \in copies : \E f \in Files : CopyEntryFails(c, f)

CopyStep ==
  \E c \in copies :
    \/ CopyClear(c)
    \/ CopyRead(c)
    \/ \E f \in Files : CopyEntry(c, f)

\* The server answers every request on its own asynchronous handler: a second
\* deploy() may start while the first is at any of its awaits.
Next ==
  \/ \E p \in Procs, tag \in Tags : Start(p, tag)
  \/ \E p \in Procs : Step(p)
  \/ CopyStep

Spec == Init /\ [][Next]_vars

\* Overlapping requests, all for releases tagged v9, to a project that keeps
\* one release and has preRollback commands.
InitConc ==
  /\ Init
  /\ keepReleases = 1
  /\ hasPreRollback

NextConc ==
  \/ \E p \in Procs : Start(p, TagV9)
  \/ \E p \in Procs : Step(p)
  \/ CopyStep

SpecConc == InitConc /\ [][NextConc]_vars

\* The same program when requests arrive one after the other: a deploy()
\* starts only when no other is in flight (on handler h1, say).
StartAlone(p, tag) ==
  /\ p = "h1"
  /\ \A q \in Procs : att[q].pc = "idle"
  /\ Start(p, tag)

NextSeq ==
  \/ \E p \in Procs, tag \in Tags : StartAlone(p, tag)
  \/ \E p \in Procs : Step(p)
  \/ CopyStep

SpecSeq == Init /\ [][NextSeq]_vars

\* One deployment at a time of one tag, where a copy operation of a
\* directory copy may throw.
InitCopy ==
  /\ Init
  /\ keepReleases = 1
  /\ hasPreRollback

NextCopy ==
  \/ \E p \in Procs : StartAlone(p, TagV9)
  \/ \E p \in Procs : Step(p)
  \/ CopyStep
  \/ CopyFails

SpecCopy == InitCopy /\ [][NextCopy]_vars

\* One deployment at a time with keepReleases = 1, where every await of an
\* attempt in flight returns: each handler that can take a step eventually
\* takes one.
InitLive ==
  /\ Init
  /\ keepReleases = 1

SpecLive ==
  /\ InitLive
  /\ [][NextSeq]_vars
  /\ \A p \in Procs : WF_vars(Step(p))

\* Requests one after the other, and a reader of current/<project>.
NextRead ==
  \/ NextSeq
  \/ Read

SpecRead == Init /\ [][NextRead]_vars

\* Webhook requests one after the other, to a project with or without a
\* branch filter that keeps one release and has preRollback commands.
InitWeb ==
  /\ RunServer
  /\ branch \in {NoBranch, "main"}
  /\ keepReleases = 1
  /\ hasPreRollback

\* A request arrives while no other is being handled.
ReceiveAlone(p, r) ==
  /\ p = "h1"
  /\ \A q \in Procs : att[q].pc = "idle"
  /\ Receive(p, r)

\* Requests that differ in signature, event type and payload, with a body
\* that is UTF-8 text or is not.
RequestsWeb ==
  [body : {<<123>>, <<255>>},
   signature : {NoHeader, Signed(WebhookSecret, <<123>>),
                Signed(WebhookSecret, <<255>>), Signed("guess", <<123>>)},
   event : Events,
   json : Payloads]

NextWeb ==
  \/ \E p \in Procs, r \in RequestsWeb : ReceiveAlone(p, r)
  \/ \E p \in Procs : HandleRelease(p)
  \/ \E p \in Procs : Step(p)
  \/ CopyStep

SpecWeb == InitWeb /\ [][NextWeb]_vars

\* Requests that differ in body and signature header, each a published
\* release event of the configured repository.
RequestsSig ==
  [body : Bodies,
   signature : Headers,
   event : {"release"},
   json : {[parses |-> TRUE, action |-> "published", full_name |-> GithubRepo,
            target_commitish |-> "main", tag_name |-> TagV9]}]

NextSig ==
  \/ \E p \in Procs, r \in RequestsSig : ReceiveAlone(p, r)
  \/ \E p \in Procs : HandleRelease(p)
  \/ \E p \in Procs : Step(p)
  \/ CopyStep

SpecSig == InitWeb /\ [][NextSig]_vars

\* One deployment after the other to a project that keeps one release; the
\* download of the first may be any file of up to MaxBuffer bytes.
InitExtract ==
  /\ Init
  /\ keepReleases = 1
  /\ hasPreRollback

DownloadAny(p) ==
  /\ att[p].pc = "curl"
  /\ started = 1
  /\ \E b \in Buffers : Download(p, b)

NextExtract ==
  \/ \E p \in Procs : StartAlone(p, TagV9)
  \/ \E p \in Procs : DownloadAny(p)
  \/ \E p \in Procs : Step(p)
  \/ CopyStep

SpecExtract == InitExtract /\ [][NextExtract]_vars


\* ------------------------------------------------------------- properties

Finished(a) == a.pc \in {"done", "failed"}

\* The files a serving directory mirroring release n would hold.
Mirror(n) == [f \in Files |-> IF f \in FilesOf(releases[n]) THEN n ELSE NoRelease]

\* C1: when deploy() has thrown and current/<project> resolved to a release P
\* as the attempt began, current/<project> resolves to P again.
C1_FailedAttemptRestoresPointer ==
  \A p \in Procs :
    (att[p].pc = "failed" /\ att[p].startCur # NoRelease)
      => Realpath(current) = att[p].startCur

\* C2: when a failed attempt has finished and a release P was active as it
\* began, the serving directory holds exactly the files of P.
C2_FailedAttemptRestoresWebRoot ==
  \A p \in Procs :
    (att[p].pc = "failed" /\ att[p].startCur # NoRelease)
      => webRoot = Mirror(att[p].startCur)

\* C3: when deploy() returns without error, current/<project> is a link to
\* the release directory of this attempt, and that directory exists.
C3_SuccessPointsAtNewRelease ==
  \A p \in Procs :
    att[p].pc = "done"
      => current = att[p].rel /\ releases[att[p].rel] # "absent"

\* C4: after a completed attempt the link resolves to an existing, fully
\* extracted release directory: it is not dangling, not at a partial
\* directory, and not missing once it was there or the attempt succeeded.
C4_PointerAlwaysValid ==
  \A p \in Procs :
    Finished(att[p])
      => /\ current # NoRelease => releases[current] = "full"
         /\ (att[p].pc = "done" \/ att[p].startLink # NoRelease)
              => current # NoRelease

\* C5: no step removes the release directory that current/<project>
\* references.
C5_RetentionSparesCurrent ==
  [][\A n \in Names :
       (releases[n] # "absent" /\ releases'[n] = "absent") => current # n]_vars

\* C6: when cleanup() returns, between 1 and keepReleases release directories
\* exist.
C6_RetentionCount ==
  [][\A p \in Procs :
       (att[p].pc \in {"cleanup", "rmOld"} /\ att'[p].pc = "done")
         => Cardinality({n \in Names : releases'[n] # "absent"})
              \in 1..keepReleases]_vars

\* C7: a reader never finds current/<project> missing once it has existed.
C7_ReaderNeverSeesMissing == seen # "vanished"

\* An attempt between its capture of the previous target and the end of its
\* activation (createSymlink and updateWebRoot).
Activating(a) == a.pc \in {"rm", "ln", "web"}

\* C8: no two attempts are between capture and end of activation at once.
C8_DeploymentsSerialized ==
  \A p, q \in Procs :
    p # q => ~(Activating(att[p]) /\ Activating(att[q]))

\* C9: the error deploy() throws is the error of the step that failed, also
\* when the rollback fails.
C9_OriginalErrorSurfaced ==
  \A p \in Procs : att[p].pc = "failed" => att[p].out = att[p].err

\* C10: rollback runs exactly when a previous release is known, and an
\* attempt that began with no current/<project> never runs it: no rollback
\* step, and the error thrown is the error of the failed step.
C10_RollbackIffPreviousKnown ==
  \A p \in Procs :
    /\ att[p].pc = "failed" => (att[p].rolled <=> att[p].prev # NoRelease)
    /\ att[p].startLink = NoRelease
         => ~att[p].rolled /\ ~InRollback(att[p])
            /\ (att[p].pc = "failed" => att[p].out = att[p].err)

\* C11: an attempt that fails has removed no release directory.
C11_FailedAttemptRemovesNothing ==
  \A p \in Procs : att[p].pc = "failed" => ~att[p].removed

\* C12: the commands started are the first commands of the list, in list
\* order; a command is started only when every command before it has exited
\* with code 0; and when a command has exited non-zero, executeCommands has
\* thrown an error that carries that command, its exit code and its stderr,
\* and no further command has been started.
C12_CommandsInOrderStopAtFailure ==
  \A p \in Procs :
    LET a == att[p]
        n == Len(a.ran)
        m == Len(a.exits)
    IN /\ n <= Len(PreRollbackCommands)
       /\ a.ran = SubSeq(PreRollbackCommands, 1, n)
       /\ m = IF a.running THEN n - 1 ELSE n
       /\ \A i \in 1..(n - 1) : a.exits[i].code = 0
       /\ (m > 0 /\ a.exits[m].code # 0)
            => /\ ~a.running /\ m = n
               /\ a.pc = "failed"
               /\ a.out = RollbackError
               /\ a.cmdErr = CommandError(a.ran[m], a.exits[m].code,
                                          a.exits[m].stderr)
       /\ (m = 0 \/ a.exits[m].code = 0) => a.cmdErr = NoCommandError

\* The second command of the list has failed after the first exited with 0.
C12_SecondCommandFailed ==
  \E p \in Procs :
    /\ att[p].pc = "failed"
    /\ Len(att[p].ran) = 2
    /\ att[p].exits[1].code = 0
    /\ att[p].exits[2].code # 0

\* The step in which handler p leaves handleRelease's synchronous part: it
\* has returned early, or it has called deploy().
Handled(p) == att[p].pc = "received" /\ att'[p].pc # "received"

\* C13: a request passes the signature check exactly when its header is
\* "sha256=" followed by the hex HMAC-SHA256 of the request body under the
\* webhook secret; every other request is answered 401 "Invalid signature".
C13_SignatureAcceptedIffHmacOfBody ==
  [][\A p \in Procs :
       Handled(p)
         => IF att[p].req.signature = Signed(WebhookSecret, att[p].req.body)
            THEN att'[p].resp.status # 401
            ELSE att'[p].resp = Rejection(401, "Invalid signature")]_vars

\* The request carries the signature of its body under the webhook secret.
SignatureValid(r) == r.signature = Signed(WebhookSecret, r.body)

\* The project's branch filter is set and differs from the target commitish.
BranchMismatch(r) == branch # NoBranch /\ r.json.target_commitish # branch

\* The conditions under which a request is to be deployed.
Accepted(r) ==
  /\ SignatureValid(r)
  /\ r.event = "release"
  /\ r.json.parses
  /\ r.json.action = "published"
  /\ r.json.full_name = GithubRepo
  /\ ~BranchMismatch(r)

\* The file system is left as it is by a step.
FilesUntouched == UNCHANGED <<releases, current, webRootDir, webRoot, copies>>

\* C14: deploy() is called for a request exactly when its signature is valid,
\* its event type is "release", its action is "published", the project
\* matches its repository and the branch filter is absent or equal to its
\* target commitish; no deploy() starts in any other way.
C14_DeployIffRequestAccepted ==
  [][\A p \in Procs :
       /\ Handled(p) => (att'[p].pc = "mkdir" <=> Accepted(att[p].req))
       /\ (att[p].pc # "mkdir" /\ att'[p].pc = "mkdir") => Handled(p)]_vars

\* The status the order of checks gives a request: 401, 400, 200, 404, 400,
\* or 0 for a request that none of them rejects.
ClaimedStatus(r) ==
  IF ~SignatureValid(r) THEN 401
  ELSE IF r.event # "release" THEN 400
  ELSE IF r.json.action # "published" THEN 200
  ELSE IF r.json.full_name # GithubRepo THEN 404
  ELSE IF BranchMismatch(r) THEN 400
  ELSE 0

\* C15: a request is answered 401 when its signature is invalid or missing,
\* otherwise 400 when its event type is not "release", otherwise 200 when its
\* action is not "published", otherwise 404 when no project matches,
\* otherwise 400 when the branch filter does not match; and the answer is
\* given without a change to the file system.  (Of a body that is not JSON
\* only the first two are asked: it has no action to look at.)
C15_RejectionStatusOrder ==
  [][\A p \in Procs :
       LET r == att[p].req
           s == ClaimedStatus(r)
       IN (Handled(p) /\ s # 0 /\ (r.json.parses \/ ~SignatureValid(r)
                                      \/ r.event # "release"))
            => att'[p].resp.status = s /\ FilesUntouched]_vars

\* C16: while a handler deals with a release event whose target commitish
\* differs from the configured branch, no step of it creates a release
\* directory, changes current/<project> or changes the serving directory,
\* and it does not call deploy().
C16_BranchMismatchChangesNothing ==
  [][\A p \in Procs :
       (/\ att[p].pc \in {"received", "responded"}
        /\ att[p].req.json.parses
        /\ BranchMismatch(att[p].req)
        /\ att'[p] # att[p])
         => FilesUntouched /\ att'[p].pc \in {"responded", "idle"}]_vars

\* A release event for the configured repository with the wrong branch has
\* been answered 400 while a release is deployed.
C16_MismatchAnswered ==
  \E p \in Procs :
    /\ att[p].pc = "responded"
    /\ att[p].req.json.parses
    /\ att[p].req.json.action = "published"
    /\ att[p].req.json.full_name = GithubRepo
    /\ BranchMismatch(att[p].req)
    /\ att[p].resp.status = 400
    /\ current # NoRelease

\* The four bytes 50 4B 03 04 occur somewhere in the file.
ContainsSignature(bytes) ==
  \E i \in 1..(Len(bytes) - 3) :
    /\ bytes[i] = 80
    /\ bytes[i + 1] = 75
    /\ bytes[i + 2] = 3
    /\ bytes[i + 3] = 4

\* Extraction of a file without the signature is attempted by handler p.
ExtractsUnsigned(p) ==
  /\ att[p].pc = "extract"
  /\ ~ContainsSignature(att[p].buf)
  /\ att'[p] # att[p]

C18_ExistingDirectoryIsCollision ==
  [][\A p \in Procs :
       (/\ att[p].pc = "mkdir"
        /\ releases[att[p].rel] # "absent"
        /\ att'[p] # att[p])
         => /\ att'[p].pc = "failed"
            /\ att'[p].err = StepError]_vars

\* C19: the response to a request whose deployment succeeded carries the
\* matched project's name and a non-empty extraction path, the release
\* directory that the deployment staged and activated.
C19_ResponseCarriesExtractPath ==
  \A p \in Procs :
    (/\ att[p].pc = "responded"
     /\ att[p].resp.status = 200
     /\ att[p].resp.text = "Release processed successfully")
      => /\ att[p].resp.project = ProjectName
         /\ att[p].resp.extractPath # NoRelease
         /\ att[p].resp.extractPath = att[p].rel

\* The first step of rollback().
RollbackEntry == IF hasPreRollback THEN "rb_hook" ELSE "rb_rm"

\* Handler p enters rollback() in this step.
EntersRollback(p) ==
  /\ att[p].pc # RollbackEntry
  /\ att'[p].pc = RollbackEntry

\* C20: every attempt that starts eventually ends as done or failed, given
\* that every external call returns; and rollback() is entered at most once
\* per attempt: a failure inside rollback does not start another rollback.
C20_AttemptTerminatesRollbackOnce ==
  /\ \A p \in Procs :
       (att[p].pc = "mkdir") ~> (att[p].pc \in {"done", "failed"})
  /\ [][\A p \in Procs :
          /\ InRollback(att[p]) => ~EntersRollback(p)
          /\ EntersRollback(p) => ~att[p].rolled]_vars

\* An attempt has failed with an error thrown inside rollback().
C20_RollbackFailed ==
  \E p \in Procs :
    /\ att[p].pc = "failed"
    /\ att[p].rolled
    /\ att[p].out # att[p].err

\* The directories of S that are not among the keep most recently created.
Outdated(S, keep) ==
  {n \in S : Cardinality({m \in S : m.ts > n.ts}) >= keep}

\* The elements of a sequence.
Range(s) == {s[i] : i \in 1..Len(s)}

\* C21: the sorted slice that cleanup() computes is exactly the set of
\* release directories older than the keepReleases most recently created
\* ones, whatever their tags.
C21_SortAgreesWithCreationTime ==
  [][\A p \in Procs :
       (att[p].pc = "cleanup" /\ att'[p].pc # "cleanup")
         => Range(att'[p].toRemove) = Outdated(Existing, keepReleases)]_vars

\* config.postExtract of the project: the post-activation hook commands.
PostExtractCommands == <<"php artisan migrate">>

\* The steps of a successful deployment, in the order required.
RequiredSteps ==
  <<"resolve", "download", "extract", "capture", "swap", "sync">>
    \o (IF PostExtractCommands # <<>> THEN <<"hooks">> ELSE <<>>)
    \o <<"retention">>

\* C22: in a successful deployment each step occurs exactly once, in the
\* order asset resolution, download and extraction, capture of the previous
\* pointer target, pointer swap, serving-directory sync, post-activation hook
\* commands when configured, retention.
C22_StepsOnceInOrder ==
  \A p \in Procs : att[p].pc = "done" => att[p].steps = RequiredSteps

\* The steps of rollback(), in the order required.
RequiredRollbackSteps ==
  (IF PreRollbackCommands # <<>> THEN <<"hooks">> ELSE <<>>)
    \o <<"swap", "sync">>

\* C23: a rollback with a previous release runs the pre-rollback hook
\* commands, then swaps current/<project> to that release, then syncs the
\* serving directory from it; the swap and the sync are performed in every
\* such rollback.
C23_RollbackHooksSwapSync ==
  \A p \in Procs :
    (att[p].pc = "failed" /\ att[p].rolled)
      => att[p].steps = RequiredRollbackSteps

\* C24: when deploy() has returned without error, the serving-directory sync
\* of the attempt has finished: no copy from its release is still running,
\* and the serving directory holds exactly the files of that release.
C24_SyncFinishedOnReturn ==
  \A p \in Procs :
    att[p].pc = "done"
      => /\ \A c \in copies : c.src # att[p].rel
         /\ webRootDir
         /\ webRoot = Mirror(att[p].rel)

\* The releases of the attempts that have succeeded.
Succeeded == {att[p].rel : p \in {q \in Procs : att[q].pc = "done"}}

\* C25: once two overlapping attempts have both finished, current/<project>
\* resolves to the release of one that succeeded or, when both failed, to
\* the release that was active before both (the first handler to start is
\* h1).
C25_OverlapEndsAtSuccessOrOriginal ==
  (\A p \in Procs : Finished(att[p]))
    => IF Succeeded # {}
       THEN Realpath(current) \in Succeeded
       ELSE Realpath(current) = att["h1"].startCur

\* The awaits of deploy() that come before the pointer swap is begun:
\* directory creation, asset resolution, download, extraction.
BeforeSwap == {"mkdir", "resolve", "curl", "extract"}

\* C26: a step of an attempt that has not reached its pointer swap leaves
\* current/<project> and the serving directory as they are, and when it fails
\* the attempt ends as failed at once: rollback() is not called, no
\* pre-rollback command is run and current/<project> is not repointed.
C26_FailureBeforeSwapTouchesNothing ==
  [][\A p \in Procs :
       (att[p].pc \in BeforeSwap /\ att'[p] # att[p])
         => /\ UNCHANGED <<current, everLinked, webRootDir, webRoot, copies>>
            /\ att'[p].pc \in BeforeSwap \cup {"capture", "failed"}
            /\ ~att'[p].rolled
            /\ att'[p].ran = <<>>
            /\ att'[p].pc = "failed" => att'[p].out = att'[p].err]_vars

\* An attempt has failed before its pointer swap while a release was active,
\* and that release is still the one current/<project> resolves to.
C26_FailedBeforeSwap ==
  \E p \in Procs :
    /\ att[p].pc = "failed"
    /\ att[p].startCur # NoRelease
    /\ att[p].prev = NoRelease
    /\ ~att[p].rolled
    /\ Realpath(current) = att[p].startCur

\* The offset of the first occurrence of 50 4B 03 04 anywhere in the file.
SignatureOffset(bytes) ==
  CHOOSE i \in 0..(Len(bytes) - 4) :
    /\ ContainsSignature(SubSeq(bytes, i + 1, i + 4))
    /\ \A j \in 0..(i - 1) : ~ContainsSignature(SubSeq(bytes, j + 1, j + 4))

\* The offset of the trailing "--" that follows the archive's signature, or
\* the length of the file when none does.
MarkerOffset(bytes) ==
  LET from == SignatureOffset(bytes) + 4
      marks == {i \in from..(Len(bytes) - 2) :
                  bytes[i + 1] = 45 /\ bytes[i + 2] = 45}
  IN IF marks = {} THEN Len(bytes)
     ELSE CHOOSE i \in marks : \A j \in marks : i >= j

\* C27: the slice handed to unzip runs from the first occurrence of
\* 50 4B 03 04 anywhere in the downloaded file, its last four bytes
\* included, to the trailing "--" marker or to the end of the file when no
\* marker follows the archive; without a signature extraction fails before
\* unzip is invoked.
C27_SliceFromSignatureToMarker ==
  \A p \in Procs :
    att[p].pc = "extract"
      => LET b == att[p].buf
         IN IF ContainsSignature(b)
            THEN /\ Unzips(b)
                 /\ Cleaned(b) = Slice(b, SignatureOffset(b), MarkerOffset(b))
            ELSE ~Unzips(b)

\* C28: when an attempt has completed, every directory under
\* releases/<project> is a fully extracted release: a failed attempt leaves
\* no empty or partially populated directory behind.
C28_HistoryHoldsStagedReleasesOnly ==
  (\E p \in Procs : Finished(att[p]))
    => \A n \in Existing : releases[n] = "full"

\* Copy c takes a step at one of its entries.
CopyActs(c) == c.pc = "copy" /\ c \notin copies'

\* After its step at entry f, copy c is still running with every other
\* entry it had left.
Continues(c, f) ==
  c.ents \ {f} # {}
    => \E d \in copies' :
         d.src = c.src /\ d.pc = "copy" /\ d.ents = c.ents \ {f}

\* copyFile of entry g by copy c would succeed: the serving directory exists,
\* has no entry g yet, and the release directory has g.
Copyable(c, g) ==
  /\ webRootDir
  /\ webRoot[g] = NoRelease
  /\ g \in FilesOf(releases[c.src])

\* C29: a copy operation that throws does not abort the sync: the step
\* changes no deployment attempt, the copy goes on with every other entry,
\* and an entry the copy handles after such a failure is copied into the
\* serving directory.
C29_EntryFailureDoesNotAbortSync ==
  [][\A c \in copies :
       CopyActs(c)
         => /\ att' = att
            /\ \E f \in c.ents :
                 /\ Continues(c, f)
                 /\ logged' # logged => webRoot' = webRoot
                 /\ (logged' = logged /\ c.bad # {} /\ Copyable(c, f))
                      => webRoot'[f] = c.src]_vars

\* A deployment has succeeded although one entry of its copy failed; the
\* other entry of its release is in the serving directory.
C29_SyncedAroundFailure ==
  \E p \in Procs :
    /\ att[p].pc = "done"
    /\ logged > 0
    /\ ~att[p].rolled
    /\ copies = {}
    /\ \E f, g \in Files :
         webRoot[f] = NoRelease /\ webRoot[g] = att[p].rel

====
